---- MODULE Spec2Model ----
(***************************************************************************)
(* Model of the DocumentAIProcessor controller of static/js/app.js: the    *)
(* current session id, the status polling timer, the visibility of the     *)
(* page sections and the asynchronous requests in flight.                  *)
(***************************************************************************)
EXTENDS Bags, FiniteSets, Integers, Sequences, TLC

\* ---- bounds --------------------------------------------------------------
NumSessions == 2
MaxTimers == 2
MaxInFlight == 3

Sessions == 1..NumSessions
TimerIds == 1..MaxTimers
NoSession == 0
NoTimer == 0
NoArg == "-"
NoToast == "-"

\* ---- the server, as section 6 of the specification describes it ----------
Statuses == {"pending", "processing", "completed", "failed"}
NotCreated == "none"

\* the values of the #summaryType and #questionCount selectors
SummaryTypes == {"short", "medium", "long"}
QuestionCounts == {"5"}
\* the text of the #sessionName input: blank, or a name
SessionNames == {"  ", "notes"}
Trim(name) == IF name = "  " THEN "" ELSE name

\* the list GET /saved-sessions answers with
SavedSessions(n) == 1..n

\* ---- the page ------------------------------------------------------------
Sections == {"uploadSection", "processingSection", "resultsSection"}
Elements == Sections \cup {"historyModal"}

InitialHidden ==
    [e \in Elements |-> e # "uploadSection"]

VARIABLES
    currentSessionId,     \* this.currentSessionId
    statusCheckInterval,  \* this.statusCheckInterval: the handle kept
    liveTimers,           \* interval timers set and not cleared
    hidden,               \* element id -> classList.contains('hidden')
    docHidden,            \* document.hidden
    fileInputFiles,       \* fileInput.files.length > 0
    processingStatus,     \* what #processingStatus renders
    summaryContent,       \* what #summaryContent shows
    quizContent,          \* what #quizContent shows
    historyList,          \* sessions with a View button in #historyList
    inflight,             \* bag of requests awaiting their response
    created,              \* the server has created sessions 1..created
    capacity,             \* requests the environment lets be in flight
    userWaits,            \* the user starts no request while one is awaited
    loadRun,              \* the loadSession call no other handler has
                          \* interleaved with: its session, the awaits
                          \* it has passed, whether it saw completed
    toast                 \* the toast the last handler showed

results == <<summaryContent, quizContent>>

vars == <<currentSessionId, statusCheckInterval, liveTimers, hidden,
          docHidden, fileInputFiles, processingStatus, results, historyList,
          inflight, created, capacity, userWaits, loadRun, toast>>

Req(kind, sid, arg, cont) ==
    [kind |-> kind, sid |-> sid, arg |-> arg, cont |-> cont]
NoRun == [sid |-> NoSession, stage |-> 0, done |-> FALSE]
Run(sid, stage, done) == [sid |-> sid, stage |-> stage, done |-> done]
NoDisplay == [sid |-> NoSession, st |-> NotCreated]
NoContent == [sid |-> NoSession, arg |-> NoArg]

Room(n) == BagCardinality(inflight) + n <= capacity
UserMayAsk == userWaits => inflight = EmptyBag
Pending(kind) == {r \in BagToSet(inflight) : r.kind = kind}
One(r) == SetToBag({r})

Visible(e) == ~hidden[e]
VisibleSections == {e \in Sections : Visible(e)}

\* the controls a user can reach: the upload form belongs to the Upload
\* section, the summary, quiz and save controls to the Results section
UploadFormShown == Visible("uploadSection")
ResultControlsShown == Visible("resultsSection")

\* ---- helpers of the controller -------------------------------------------
FreeTimer(live) == CHOOSE t \in TimerIds \ live :
                       \A u \in TimerIds \ live : t <= u

startStatusChecking(interval, live) ==
    [interval |-> FreeTimer(live), live |-> live \cup {FreeTimer(live)}]

stopStatusChecking(interval, live) ==
    IF interval # NoTimer
    THEN [interval |-> NoTimer, live |-> live \ {interval}]
    ELSE [interval |-> interval, live |-> live]

\* the part of updateProcessingStatus before its first await
updateProcessingStatus(sid, cont) ==
    IF sid = NoSession THEN EmptyBag ELSE One(Req("status", sid, NoArg, cont))

showProcessingSection(h) ==
    [h EXCEPT !["uploadSection"] = TRUE, !["processingSection"] = FALSE]

showResultsSection(h) ==
    [h EXCEPT !["processingSection"] = TRUE, !["resultsSection"] = FALSE]

hideHistory(h) == [h EXCEPT !["historyModal"] = TRUE]

\* ---- initial state -------------------------------------------------------
InitPage ==
    /\ currentSessionId = NoSession
    /\ statusCheckInterval = NoTimer
    /\ liveTimers = {}
    /\ hidden = InitialHidden
    /\ docHidden = FALSE
    /\ fileInputFiles = FALSE
    /\ processingStatus = NoDisplay
    /\ summaryContent = NoContent
    /\ quizContent = NoContent
    /\ historyList = {}
    /\ inflight = EmptyBag
    /\ loadRun = NoRun
    /\ toast = NoToast

Init ==
    /\ InitPage
    /\ created \in 0..NumSessions
    /\ capacity = MaxInFlight
    /\ userWaits = FALSE

\* ---- file selection and upload -------------------------------------------
\* the change event of #fileInput: the browser has set fileInput.files
handleFileSelection ==
    /\ UploadFormShown
    /\ \E chosen \in BOOLEAN : fileInputFiles' = chosen
    /\ loadRun' = NoRun
    /\ UNCHANGED <<currentSessionId, statusCheckInterval, liveTimers, hidden,
                   docHidden, processingStatus, historyList, inflight,
                   created>>
    /\ toast' = NoToast
    /\ UNCHANGED <<results, capacity, userWaits>>

uploadFilesUnchecked ==
    /\ UploadFormShown
    /\ Room(1)
    /\ UserMayAsk
    /\ inflight' = inflight (+) One(Req("upload", NoSession, NoArg, "none"))
    /\ toast' = NoToast
    /\ loadRun' = NoRun
    /\ UNCHANGED <<currentSessionId, statusCheckInterval, liveTimers, hidden,
                   docHidden, fileInputFiles, processingStatus, historyList,
                   created>>
    /\ UNCHANGED <<results, capacity, userWaits>>

\* uploadFiles up to its await of fetch('/upload')
uploadFiles ==
    /\ UploadFormShown
    /\ IF ~fileInputFiles
       THEN /\ toast' = "Please select files to upload"
            /\ UNCHANGED inflight
       ELSE /\ Room(1)
            /\ UserMayAsk
            /\ inflight' = inflight (+) One(Req("upload", NoSession, NoArg, "none"))
            /\ toast' = NoToast
    /\ loadRun' = NoRun
    /\ UNCHANGED <<currentSessionId, statusCheckInterval, liveTimers, hidden,
                   docHidden, fileInputFiles, processingStatus, historyList,
                   created>>
    /\ UNCHANGED <<results, capacity, userWaits>>

uploadResponseOfDropsId(r, ok) ==
    /\ r \in Pending("upload")
    /\ loadRun' = NoRun
    /\ UNCHANGED <<docHidden, processingStatus, historyList>>
    /\ IF ok
       THEN \E sid \in {created + 1} \cap Sessions :
              /\ TimerIds \ liveTimers # {}
              /\ created' = sid
              /\ UNCHANGED currentSessionId
              /\ toast' = "Files uploaded successfully!"
              /\ hidden' = showProcessingSection(hidden)
              /\ inflight' = (inflight (-) One(r))
                               (+) updateProcessingStatus(currentSessionId,
                                                          "none")
              /\ statusCheckInterval' =
                     startStatusChecking(statusCheckInterval, liveTimers).interval
              /\ liveTimers' =
                     startStatusChecking(statusCheckInterval, liveTimers).live
              /\ fileInputFiles' = FALSE
       ELSE /\ inflight' = inflight (-) One(r)
            /\ toast' = "Upload failed"
            /\ UNCHANGED <<currentSessionId, statusCheckInterval, liveTimers,
                           hidden, fileInputFiles, created>>
    /\ UNCHANGED <<results, capacity, userWaits>>

\* uploadFiles after the await: the response of POST /upload
uploadResponseOf(r, ok) ==
    /\ r \in Pending("upload")
    /\ loadRun' = NoRun
    /\ UNCHANGED <<docHidden, processingStatus, historyList>>
    /\ IF ok
       THEN \E sid \in {created + 1} \cap Sessions :
              /\ TimerIds \ liveTimers # {}
              /\ created' = sid
              /\ currentSessionId' = sid
              /\ toast' = "Files uploaded successfully!"
              /\ hidden' = showProcessingSection(hidden)
              /\ inflight' = (inflight (-) One(r))
                               (+) updateProcessingStatus(sid, "none")
              /\ statusCheckInterval' =
                     startStatusChecking(statusCheckInterval, liveTimers).interval
              /\ liveTimers' =
                     startStatusChecking(statusCheckInterval, liveTimers).live
              /\ fileInputFiles' = FALSE
       ELSE /\ inflight' = inflight (-) One(r)
            /\ toast' = "Upload failed"
            /\ UNCHANGED <<currentSessionId, statusCheckInterval, liveTimers,
                           hidden, fileInputFiles, created>>
    /\ UNCHANGED <<results, capacity, userWaits>>

uploadResponse ==
    \E r \in Pending("upload"), ok \in BOOLEAN : uploadResponseOf(r, ok)

\* ---- status polling ------------------------------------------------------
\* one tick of a live interval timer: the callback of setInterval
pollTick ==
    \E t \in liveTimers :
      /\ Room(1)
      /\ inflight' = inflight (+) updateProcessingStatus(currentSessionId, "none")
      /\ UNCHANGED <<currentSessionId, statusCheckInterval, liveTimers, hidden,
                     docHidden, fileInputFiles, processingStatus, historyList,
                     created, loadRun>>
    /\ toast' = NoToast
    /\ UNCHANGED <<results, capacity, userWaits>>

statusResponseOfForgetsSession(r, ok, st) ==
    LET done == ok /\ st = "completed"
        stopped == stopStatusChecking(statusCheckInterval, liveTimers)
        next == IF r.cont = "load"
                THEN One(Req("loadStatus", r.sid, NoArg, "none"))
                ELSE EmptyBag
    IN
    /\ r \in Pending("status")
    /\ inflight' = (inflight (-) One(r)) (+) next
    /\ processingStatus' = IF ok THEN [sid |-> r.sid, st |-> st]
                                 ELSE processingStatus
    /\ hidden' = IF done THEN showResultsSection(hidden) ELSE hidden
    /\ statusCheckInterval' = IF done THEN stopped.interval
                                      ELSE statusCheckInterval
    /\ liveTimers' = IF done THEN stopped.live ELSE liveTimers
    /\ loadRun' =
         IF r.cont = "load"
         THEN IF loadRun = Run(r.sid, 1, FALSE)
              THEN Run(r.sid, 2, done)
              ELSE NoRun
         ELSE IF r.sid = loadRun.sid THEN loadRun ELSE NoRun
    /\ currentSessionId' = IF done THEN NoSession ELSE currentSessionId
    /\ UNCHANGED <<docHidden, fileInputFiles, historyList, created>>
    /\ toast' = NoToast
    /\ UNCHANGED <<results, capacity, userWaits>>

statusResponseOfGivesUp(r, ok, st) ==
    LET done == ok /\ st = "completed"
        stopped == stopStatusChecking(statusCheckInterval, liveTimers)
        next == IF r.cont = "load"
                THEN One(Req("loadStatus", r.sid, NoArg, "none"))
                ELSE EmptyBag
    IN
    /\ r \in Pending("status")
    /\ inflight' = (inflight (-) One(r)) (+) next
    /\ processingStatus' = IF ok THEN [sid |-> r.sid, st |-> st]
                                 ELSE processingStatus
    /\ hidden' = IF done THEN showResultsSection(hidden) ELSE hidden
    /\ statusCheckInterval' = IF done \/ ~ok THEN stopped.interval
                                             ELSE statusCheckInterval
    /\ liveTimers' = IF done \/ ~ok THEN stopped.live ELSE liveTimers
    /\ loadRun' =
         IF r.cont = "load"
         THEN IF loadRun = Run(r.sid, 1, FALSE)
              THEN Run(r.sid, 2, done)
              ELSE NoRun
         ELSE IF r.sid = loadRun.sid THEN loadRun ELSE NoRun
    /\ UNCHANGED <<currentSessionId, docHidden, fileInputFiles, historyList,
                   created>>
    /\ toast' = NoToast
    /\ UNCHANGED <<results, capacity, userWaits>>

\* updateProcessingStatus after its await: the response of GET /status/sid;
\* a call awaited by loadSession continues into loadSession's own fetch
statusResponseOf(r, ok, st) ==
    LET done == ok /\ st = "completed"
        stopped == stopStatusChecking(statusCheckInterval, liveTimers)
        next == IF r.cont = "load"
                THEN One(Req("loadStatus", r.sid, NoArg, "none"))
                ELSE EmptyBag
    IN
    /\ r \in Pending("status")
    /\ inflight' = (inflight (-) One(r)) (+) next
    /\ processingStatus' = IF ok THEN [sid |-> r.sid, st |-> st]
                                 ELSE processingStatus
    /\ hidden' = IF done THEN showResultsSection(hidden) ELSE hidden
    /\ statusCheckInterval' = IF done THEN stopped.interval
                                      ELSE statusCheckInterval
    /\ liveTimers' = IF done THEN stopped.live ELSE liveTimers
    /\ loadRun' =
         IF r.cont = "load"
         THEN IF loadRun = Run(r.sid, 1, FALSE)
              THEN Run(r.sid, 2, done)
              ELSE NoRun
         ELSE IF r.sid = loadRun.sid THEN loadRun ELSE NoRun
    /\ UNCHANGED <<currentSessionId, docHidden, fileInputFiles, historyList,
                   created>>
    /\ toast' = NoToast
    /\ UNCHANGED <<results, capacity, userWaits>>

statusResponse ==
    \E r \in Pending("status"), ok \in BOOLEAN, st \in Statuses :
      statusResponseOf(r, ok, st)

\* ---- saved sessions ------------------------------------------------------
\* showHistory up to its await of fetch('/saved-sessions')
showHistory ==
    /\ Room(1)
    /\ UserMayAsk
    /\ inflight' = inflight (+) One(Req("history", NoSession, NoArg, "none"))
    /\ loadRun' = NoRun
    /\ UNCHANGED <<currentSessionId, statusCheckInterval, liveTimers, hidden,
                   docHidden, fileInputFiles, processingStatus, historyList,
                   created>>
    /\ toast' = NoToast
    /\ UNCHANGED <<results, capacity, userWaits>>

historyResponseOfPausesPolling(r, ok) ==
    /\ r \in Pending("history")
    /\ inflight' = inflight (-) One(r)
    /\ loadRun' = NoRun
    /\ IF ok
       THEN /\ historyList' = SavedSessions(created)
            /\ hidden' = [hidden EXCEPT !["historyModal"] = FALSE]
            /\ toast' = NoToast
       ELSE /\ toast' = "Failed to load history"
            /\ UNCHANGED <<historyList, hidden>>
    /\ statusCheckInterval' =
           stopStatusChecking(statusCheckInterval, liveTimers).interval
    /\ liveTimers' = stopStatusChecking(statusCheckInterval, liveTimers).live
    /\ UNCHANGED <<currentSessionId, docHidden, fileInputFiles,
                   processingStatus, created>>
    /\ UNCHANGED <<results, capacity, userWaits>>

\* showHistory after the await: displayHistory and the modal
historyResponseOf(r, ok) ==
    /\ r \in Pending("history")
    /\ inflight' = inflight (-) One(r)
    /\ loadRun' = NoRun
    /\ IF ok
       THEN /\ historyList' = SavedSessions(created)
            /\ hidden' = [hidden EXCEPT !["historyModal"] = FALSE]
            /\ toast' = NoToast
       ELSE /\ toast' = "Failed to load history"
            /\ UNCHANGED <<historyList, hidden>>
    /\ UNCHANGED <<currentSessionId, statusCheckInterval, liveTimers,
                   docHidden, fileInputFiles, processingStatus, created>>
    /\ UNCHANGED <<results, capacity, userWaits>>

historyResponse ==
    \E r \in Pending("history"), ok \in BOOLEAN : historyResponseOf(r, ok)

\* the close button and the click outside the modal
closeHistory ==
    /\ hidden' = hideHistory(hidden)
    /\ loadRun' = NoRun
    /\ UNCHANGED <<currentSessionId, statusCheckInterval, liveTimers,
                   docHidden, fileInputFiles, processingStatus, historyList,
                   inflight, created>>
    /\ toast' = NoToast
    /\ UNCHANGED <<results, capacity, userWaits>>

\* loadSession up to its first await: a View button of the history list
loadSessionOf(sessionId) ==
    /\ sessionId \in historyList
    /\ Visible("historyModal")
    /\ Room(2)
    /\ UserMayAsk
    /\ currentSessionId' = sessionId
    /\ hidden' = showProcessingSection(hideHistory(hidden))
    /\ inflight' = (inflight (+) updateProcessingStatus(sessionId, "none"))
                     (+) updateProcessingStatus(sessionId, "load")
    /\ loadRun' = Run(sessionId, 1, FALSE)
    /\ UNCHANGED <<statusCheckInterval, liveTimers, docHidden,
                   fileInputFiles, processingStatus, historyList,
                   created>>
    /\ toast' = NoToast
    /\ UNCHANGED <<results, capacity, userWaits>>

loadSession == \E sessionId \in Sessions : loadSessionOf(sessionId)

loadSessionResponseOfBackToUpload(r, ok, st) ==
    LET done == ok /\ st = "completed"
    IN
    /\ r \in Pending("loadStatus")
    /\ inflight' = inflight (-) One(r)
    /\ hidden' = IF done THEN showResultsSection(hidden)
                 ELSE IF ok THEN hidden
                 ELSE [hidden EXCEPT !["uploadSection"] = FALSE,
                                     !["processingSection"] = TRUE]
    /\ loadRun' = NoRun
    /\ UNCHANGED <<currentSessionId, statusCheckInterval, liveTimers,
                   docHidden, fileInputFiles, processingStatus, historyList,
                   created>>
    /\ toast' = NoToast
    /\ UNCHANGED <<results, capacity, userWaits>>

\* loadSession after its own fetch of /status/sessionId: it returns here
loadSessionResponseOf(r, ok, st) ==
    LET done == ok /\ st = "completed"
    IN
    /\ r \in Pending("loadStatus")
    /\ inflight' = inflight (-) One(r)
    /\ hidden' = IF done THEN showResultsSection(hidden) ELSE hidden
    /\ loadRun' = NoRun
    /\ UNCHANGED <<currentSessionId, statusCheckInterval, liveTimers,
                   docHidden, fileInputFiles, processingStatus, historyList,
                   created>>
    /\ toast' = NoToast
    /\ UNCHANGED <<results, capacity, userWaits>>

loadSessionResponse ==
    \E r \in Pending("loadStatus"), ok \in BOOLEAN, st \in Statuses :
      loadSessionResponseOf(r, ok, st)

\* ---- page visibility -----------------------------------------------------
visibilitychange ==
    LET stopped == stopStatusChecking(statusCheckInterval, liveTimers)
        started == startStatusChecking(statusCheckInterval, liveTimers)
    IN
    /\ docHidden' = ~docHidden
    /\ IF docHidden'
       THEN /\ statusCheckInterval' = stopped.interval
            /\ liveTimers' = stopped.live
       ELSE IF currentSessionId # NoSession /\ hidden["processingSection"] = FALSE
            THEN /\ TimerIds \ liveTimers # {}
                 /\ statusCheckInterval' = started.interval
                 /\ liveTimers' = started.live
            ELSE UNCHANGED <<statusCheckInterval, liveTimers>>
    /\ loadRun' = NoRun
    /\ UNCHANGED <<currentSessionId, hidden, fileInputFiles, processingStatus,
                   historyList, inflight, created>>
    /\ toast' = NoToast
    /\ UNCHANGED <<results, capacity, userWaits>>


\* ---- summary, quiz and saving --------------------------------------------
\* generateSummary up to its await
generateSummary ==
    /\ ResultControlsShown
    /\ currentSessionId # NoSession
    /\ Room(1)
    /\ UserMayAsk
    /\ \E summaryType \in SummaryTypes :
         inflight' = inflight (+)
                     One(Req("summary", currentSessionId, summaryType, "none"))
    /\ loadRun' = NoRun
    /\ UNCHANGED <<currentSessionId, statusCheckInterval, liveTimers, hidden,
                   docHidden, fileInputFiles, processingStatus, results,
                   historyList, created>>
    /\ toast' = NoToast
    /\ UNCHANGED <<capacity, userWaits>>

summaryResponseOfClearsOnError(r, ok) ==
    /\ r \in Pending("summary")
    /\ inflight' = inflight (-) One(r)
    /\ IF ok
       THEN /\ summaryContent' = [sid |-> r.sid, arg |-> r.arg]
            /\ toast' = NoToast
       ELSE /\ toast' = "Failed to generate summary"
            /\ summaryContent' = NoContent
    /\ loadRun' = NoRun
    /\ UNCHANGED <<currentSessionId, statusCheckInterval, liveTimers, hidden,
                   docHidden, fileInputFiles, processingStatus, quizContent,
                   historyList, created>>
    /\ UNCHANGED <<capacity, userWaits>>

summaryResponseOfAppends(r, ok) ==
    /\ r \in Pending("summary")
    /\ inflight' = inflight (-) One(r)
    /\ IF ok
       THEN /\ summaryContent' =
                 [sid |-> r.sid,
                  arg |-> IF summaryContent.arg = NoArg THEN r.arg
                                                        ELSE "appended"]
            /\ toast' = NoToast
       ELSE /\ toast' = "Failed to generate summary"
            /\ UNCHANGED summaryContent
    /\ loadRun' = NoRun
    /\ UNCHANGED <<currentSessionId, statusCheckInterval, liveTimers, hidden,
                   docHidden, fileInputFiles, processingStatus, quizContent,
                   historyList, created>>
    /\ UNCHANGED <<capacity, userWaits>>

\* generateSummary after the await: displaySummary, or the error toast
summaryResponseOf(r, ok) ==
    /\ r \in Pending("summary")
    /\ inflight' = inflight (-) One(r)
    /\ IF ok
       THEN /\ summaryContent' = [sid |-> r.sid, arg |-> r.arg]
            /\ toast' = NoToast
       ELSE /\ toast' = "Failed to generate summary"
            /\ UNCHANGED summaryContent
    /\ loadRun' = NoRun
    /\ UNCHANGED <<currentSessionId, statusCheckInterval, liveTimers, hidden,
                   docHidden, fileInputFiles, processingStatus, quizContent,
                   historyList, created>>
    /\ UNCHANGED <<capacity, userWaits>>

summaryResponse ==
    \E r \in Pending("summary"), ok \in BOOLEAN : summaryResponseOf(r, ok)

\* generateQuiz up to its await
generateQuiz ==
    /\ ResultControlsShown
    /\ currentSessionId # NoSession
    /\ Room(1)
    /\ UserMayAsk
    /\ \E questionCount \in QuestionCounts :
         inflight' = inflight (+)
                     One(Req("quiz", currentSessionId, questionCount, "none"))
    /\ loadRun' = NoRun
    /\ UNCHANGED <<currentSessionId, statusCheckInterval, liveTimers, hidden,
                   docHidden, fileInputFiles, processingStatus, results,
                   historyList, created>>
    /\ toast' = NoToast
    /\ UNCHANGED <<capacity, userWaits>>

\* generateQuiz after the await: displayQuiz, or the error toast
quizResponseOf(r, ok) ==
    /\ r \in Pending("quiz")
    /\ inflight' = inflight (-) One(r)
    /\ IF ok
       THEN /\ quizContent' = [sid |-> r.sid, arg |-> r.arg]
            /\ toast' = NoToast
       ELSE /\ toast' = "Failed to generate quiz"
            /\ UNCHANGED quizContent
    /\ loadRun' = NoRun
    /\ UNCHANGED <<currentSessionId, statusCheckInterval, liveTimers, hidden,
                   docHidden, fileInputFiles, processingStatus, summaryContent,
                   historyList, created>>
    /\ UNCHANGED <<capacity, userWaits>>

quizResponse ==
    \E r \in Pending("quiz"), ok \in BOOLEAN : quizResponseOf(r, ok)

saveSessionOfUntrimmed(name) ==
    /\ ResultControlsShown
    /\ currentSessionId # NoSession
    /\ IF name = ""
       THEN /\ toast' = "Please enter a session name"
            /\ UNCHANGED inflight
       ELSE /\ Room(1)
            /\ UserMayAsk
            /\ inflight' = inflight (+)
                           One(Req("save", currentSessionId, NoArg, "none"))
            /\ toast' = NoToast
    /\ loadRun' = NoRun
    /\ UNCHANGED <<currentSessionId, statusCheckInterval, liveTimers, hidden,
                   docHidden, fileInputFiles, processingStatus, results,
                   historyList, created>>
    /\ UNCHANGED <<capacity, userWaits>>

\* saveSession up to its await
saveSessionOf(name) ==
    /\ ResultControlsShown
    /\ currentSessionId # NoSession
    /\ IF Trim(name) = ""
       THEN /\ toast' = "Please enter a session name"
            /\ UNCHANGED inflight
       ELSE /\ Room(1)
            /\ UserMayAsk
            /\ inflight' = inflight (+)
                           One(Req("save", currentSessionId, NoArg, "none"))
            /\ toast' = NoToast
    /\ loadRun' = NoRun
    /\ UNCHANGED <<currentSessionId, statusCheckInterval, liveTimers, hidden,
                   docHidden, fileInputFiles, processingStatus, results,
                   historyList, created>>
    /\ UNCHANGED <<capacity, userWaits>>

saveSession == \E name \in SessionNames : saveSessionOf(name)

\* saveSession after the await: a toast either way
saveResponseOf(r, ok) ==
    /\ r \in Pending("save")
    /\ inflight' = inflight (-) One(r)
    /\ toast' = IF ok THEN "Session saved successfully!"
                          ELSE "Failed to save session"
    /\ loadRun' = NoRun
    /\ UNCHANGED <<currentSessionId, statusCheckInterval, liveTimers, hidden,
                   docHidden, fileInputFiles, processingStatus, results,
                   historyList, created>>
    /\ UNCHANGED <<capacity, userWaits>>

saveResponse ==
    \E r \in Pending("save"), ok \in BOOLEAN : saveResponseOf(r, ok)

Next ==
    \/ handleFileSelection
    \/ uploadFiles
    \/ uploadResponse
    \/ pollTick
    \/ statusResponse
    \/ showHistory
    \/ historyResponse
    \/ closeHistory
    \/ loadSession
    \/ loadSessionResponse
    \/ visibilitychange

Spec == Init /\ [][Next]_vars

\* the controller with the actions of the Results phase as well
NextAll ==
    \/ handleFileSelection
    \/ uploadFiles
    \/ uploadResponse
    \/ pollTick
    \/ statusResponse
    \/ showHistory
    \/ historyResponse
    \/ closeHistory
    \/ loadSession
    \/ loadSessionResponse
    \/ visibilitychange
    \/ generateSummary
    \/ summaryResponse
    \/ generateQuiz
    \/ quizResponse
    \/ saveSession
    \/ saveResponse

\* all handlers, on a freshly loaded page whose server holds one session of
\* an earlier visit, for a user who awaits each response before asking for
\* more and leaves one request slot unused
InitAll ==
    /\ InitPage
    /\ created = 1
    /\ capacity = MaxInFlight - 1
    /\ userWaits = TRUE

SpecAll == InitAll /\ [][NextAll]_vars

\* the handlers of Next with one request slot left unused
InitCalm ==
    /\ InitPage
    /\ created \in 0..NumSessions
    /\ capacity = MaxInFlight - 1
    /\ userWaits = FALSE

SpecCalm == InitCalm /\ [][Next]_vars

\* the saved sessions of earlier visits and their summaries and quizzes, on
\* a page that stays visible and uploads nothing, for a user who does not
\* wait for a response before acting again
NextBusy ==
    \/ statusResponse
    \/ showHistory
    \/ historyResponse
    \/ closeHistory
    \/ loadSession
    \/ loadSessionResponse
    \/ generateSummary
    \/ summaryResponse
    \/ generateQuiz
    \/ quizResponse

InitBusy ==
    /\ InitPage
    /\ created = NumSessions
    /\ capacity = MaxInFlight
    /\ userWaits = FALSE

SpecBusy == InitBusy /\ [][NextBusy]_vars

\* the upload flow on a page that stays visible: timers tick, every request
\* is answered, and a status request that keeps being asked is eventually
\* answered with completed
NextLive ==
    \/ handleFileSelection
    \/ uploadFiles
    \/ uploadResponse
    \/ pollTick
    \/ statusResponse

CompletedResponse ==
    \E r \in Pending("status") : statusResponseOf(r, TRUE, "completed")

SpecLive ==
    /\ Init
    /\ [][NextLive]_vars
    /\ WF_vars(pollTick)
    /\ WF_vars(uploadResponse)
    /\ WF_vars(statusResponse)
    /\ SF_vars(CompletedResponse)

\* ---- phases --------------------------------------------------------------
PhaseUpload == VisibleSections = {"uploadSection"}
PhaseProcessing == VisibleSections = {"processingSection"}
PhaseResults == VisibleSections = {"resultsSection"}

\* ---- C1 ------------------------------------------------------------------
\* C1: in every reachable state at most one interval polling timer is live,
\* and right after a successful upload response exactly one is.
AtMostOnePollingTimer ==
    /\ Cardinality(liveTimers) <= 1
    /\ toast = "Files uploaded successfully!" => Cardinality(liveTimers) = 1

\* ---- C2 ------------------------------------------------------------------
\* C2: a status response for a session A whose request was in flight when
\* loadSession(B) replaced the current session changes neither the displayed
\* file-status list nor the visible sections.
StaleStatusResponseIgnored ==
    [][\A r \in Pending("status"), st \in Statuses :
         ( /\ loadRun.stage >= 1
           /\ loadRun.sid = currentSessionId
           /\ r.sid # currentSessionId
           /\ statusResponseOf(r, TRUE, st) )
         => UNCHANGED <<processingStatus, hidden>>]_vars

\* ---- C3 ------------------------------------------------------------------
\* C3: a handled status response reporting completed makes Results the phase
\* and leaves no timer live; one reporting any other status leaves the
\* sections and the timer as they were.
StatusResponseEffect ==
    [][\A r \in Pending("status"), st \in Statuses :
         statusResponseOf(r, TRUE, st)
         => IF st = "completed"
            THEN PhaseResults' /\ liveTimers' = {}
            ELSE UNCHANGED <<hidden, statusCheckInterval, liveTimers>>]_vars

\* ---- C4 ------------------------------------------------------------------
\* C4: a submit with an empty file selection issues no request, leaves the
\* phase Upload and changes neither the session id nor the polling timer.
EmptySubmitIsNoOp ==
    [][(uploadFiles /\ ~fileInputFiles)
         => /\ UNCHANGED <<inflight, hidden, currentSessionId,
                           statusCheckInterval, liveTimers>>
            /\ PhaseUpload']_vars

EmptySubmitHappened ==
    /\ toast = "Please select files to upload"
    /\ ~fileInputFiles
    /\ PhaseUpload

\* ---- C5 ------------------------------------------------------------------
\* C5: when loadSession or a successful upload replaces the current session,
\* no timer that was live for the previous session is live afterwards.
TimerStoppedOnReplacement ==
    [][(currentSessionId # NoSession /\ currentSessionId' # currentSessionId)
         => liveTimers \cap liveTimers' = {}]_vars

\* ---- C6 ------------------------------------------------------------------
\* C6: no polling timer is live while the page is hidden; when the page
\* becomes visible a timer is started exactly if a session is current and
\* the Processing section is displayed.
HiddenPageHasNoTimer ==
    /\ [](docHidden => liveTimers = {})
    /\ [][(docHidden /\ ~docHidden')
            => ((liveTimers' # liveTimers)
                  <=> (currentSessionId # NoSession
                         /\ Visible("processingSection")))]_vars

\* ---- C7 ------------------------------------------------------------------
\* C7: exactly one of the three phase sections is visible in every reachable
\* state.
ExactlyOnePhaseVisible == Cardinality(VisibleSections) = 1

\* ---- C8 ------------------------------------------------------------------
\* C8: when loadSession returns for a session its status fetches found not
\* completed, on a visible page, a polling timer is live.
LoadedUnfinishedSessionIsPolled ==
    [][\A r \in Pending("loadStatus"), st \in Statuses \ {"completed"} :
         ( /\ loadRun = Run(r.sid, 2, FALSE)
           /\ ~docHidden
           /\ loadSessionResponseOf(r, TRUE, st) )
         => liveTimers' # {}]_vars

\* ---- C9 ------------------------------------------------------------------
\* C9: when loadSession(id) returns after successful status responses that
\* reported completed, the current session id is id, the history overlay is
\* closed, the phase is Results and no polling timer is live.
LoadCompletedSessionEndsInResults ==
    [][\A r \in Pending("loadStatus") :
         ( /\ loadRun = Run(r.sid, 2, TRUE)
           /\ loadSessionResponseOf(r, TRUE, "completed") )
         => /\ currentSessionId' = r.sid
            /\ hidden'["historyModal"]
            /\ PhaseResults'
            /\ liveTimers' = {}]_vars

\* ---- C10 -----------------------------------------------------------------
\* C10: the current session id changes only in a successful upload response
\* and in loadSession; every other handler leaves it as it was.
SessionIdWrittenOnlyByUploadAndLoad ==
    [][(currentSessionId' # currentSessionId)
         => \/ \E r \in Pending("upload") : uploadResponseOf(r, TRUE)
            \/ loadSession]_vars

OtherHandlersRanWithSession ==
    /\ currentSessionId # NoSession
    /\ processingStatus.sid = currentSessionId
    /\ summaryContent.sid = currentSessionId
    /\ quizContent.sid = currentSessionId
    /\ toast = "Session saved successfully!"
    /\ docHidden

\* ---- C11 -----------------------------------------------------------------
\* C11: a failed upload response leaves the sections (so the Upload phase),
\* the session id and the timers as they were; a successful one makes the
\* returned session id current, Processing the phase, and a timer live.
UploadResponseEffect ==
    [][\A r \in Pending("upload") :
         /\ uploadResponseOf(r, FALSE)
              => /\ UNCHANGED <<hidden, currentSessionId,
                                statusCheckInterval, liveTimers>>
                 /\ PhaseUpload => PhaseUpload'
         /\ uploadResponseOf(r, TRUE)
              => /\ currentSessionId' = created'
                 /\ PhaseProcessing'
                 /\ statusCheckInterval' \in liveTimers']_vars

\* ---- C12 -----------------------------------------------------------------
\* C12: a summary or quiz response whose request was issued for a session
\* that is no longer the current one leaves the displayed summary and quiz
\* as they were.
StaleResultResponseIgnored ==
    [][/\ \A r \in Pending("summary") :
            (r.sid # currentSessionId /\ summaryResponseOf(r, TRUE))
            => UNCHANGED results
       /\ \A r \in Pending("quiz") :
            (r.sid # currentSessionId /\ quizResponseOf(r, TRUE))
            => UNCHANGED results]_vars

\* ---- C13 -----------------------------------------------------------------
\* C13: a failed status response leaves the sections, the session id, the
\* displayed status list and the timers as they were, and every tick of a
\* live timer issues a status request for the current session, however many
\* responses have failed before.  A failed response carries no status.
PollFailureIsRetried ==
    /\ [][\A r \in Pending("status") :
            statusResponseOf(r, FALSE, NotCreated)
            => UNCHANGED <<hidden, currentSessionId, processingStatus,
                           statusCheckInterval, liveTimers>>]_vars
    /\ [][pollTick
            => inflight' = inflight (+)
                 One(Req("status", currentSessionId, NoArg, "none"))]_vars
    /\ [](liveTimers # {} /\ Room(1) => ENABLED pollTick)

\* every status request of the current session has failed, nothing is
\* displayed for it, and its timer is still live
PollFailedTimerStillLive ==
    /\ PhaseProcessing
    /\ currentSessionId # NoSession
    /\ liveTimers # {}
    /\ inflight = EmptyBag
    /\ processingStatus = NoDisplay

\* ---- C14 -----------------------------------------------------------------
\* C14: saveSession with a name that is empty after trimming issues no
\* request and changes nothing of the controller or the page; with another
\* name it posts one request against the current session id; the call and
\* its response, successful or failed, leave the sections, the session id
\* and the timers as they were.
SaveSessionEffect ==
    /\ [][\A name \in SessionNames :
            saveSessionOf(name)
            => /\ UNCHANGED <<hidden, currentSessionId, statusCheckInterval,
                              liveTimers>>
               /\ IF Trim(name) = ""
                  THEN UNCHANGED <<inflight, processingStatus, results,
                                   historyList, fileInputFiles>>
                  ELSE inflight' = inflight (+)
                         One(Req("save", currentSessionId, NoArg, "none"))]_vars
    /\ [][\A r \in Pending("save"), ok \in BOOLEAN :
            saveResponseOf(r, ok)
            => UNCHANGED <<hidden, currentSessionId, statusCheckInterval,
                           liveTimers>>]_vars

\* a blank name was refused: nothing is in flight
BlankNameRefused ==
    /\ toast = "Please enter a session name"
    /\ inflight = EmptyBag
    /\ PhaseResults
    /\ currentSessionId # NoSession

\* ---- C15 -----------------------------------------------------------------
\* C15: every summary or quiz request is issued for a current session, never
\* without one; a failed summary or quiz response leaves the displayed
\* summary and quiz, the sections, the session id and the timers as they
\* were.
ResultRequestEffect ==
    /\ [][(generateSummary \/ generateQuiz)
            => /\ currentSessionId # NoSession
               /\ \A r \in BagToSet(inflight') :
                    r.kind \in {"summary", "quiz"} => r.sid # NoSession]_vars
    /\ [](currentSessionId = NoSession
            => ~ENABLED generateSummary /\ ~ENABLED generateQuiz)
    /\ [][\A r \in Pending("summary") \cup Pending("quiz") :
            (summaryResponseOf(r, FALSE) \/ quizResponseOf(r, FALSE))
            => UNCHANGED <<results, hidden, currentSessionId,
                           statusCheckInterval, liveTimers>>]_vars

\* a summary request failed while a summary and a quiz were displayed
SummaryFailedContentKept ==
    /\ toast = "Failed to generate summary"
    /\ summaryContent.sid = currentSessionId
    /\ quizContent.sid = currentSessionId
    /\ currentSessionId # NoSession
    /\ PhaseResults

\* ---- C16 -----------------------------------------------------------------
\* C16: showHistory, the response of its request whether successful or
\* failed, and hideHistory leave the three phase sections, the session id
\* and the timers as they were.
PhaseSections == [e \in Sections |-> hidden[e]]

HistoryLeavesPhase ==
    [][(showHistory \/ historyResponse \/ closeHistory)
         => /\ PhaseSections' = PhaseSections
            /\ UNCHANGED <<currentSessionId, statusCheckInterval,
                           liveTimers>>]_vars

\* the history overlay is open over the Processing phase while polling runs
HistoryOpenWhilePolling ==
    /\ Visible("historyModal")
    /\ PhaseProcessing
    /\ currentSessionId # NoSession
    /\ statusCheckInterval \in liveTimers

\* ---- C17 -----------------------------------------------------------------
\* C17: a successful summary response for the session and length class
\* whose summary is already displayed leaves the sections, the session id,
\* the timers and the displayed summary and quiz exactly as they were after
\* the first response.
SameSummaryTwiceIsIdempotent ==
    [][\A r \in Pending("summary") :
         ( /\ summaryContent = [sid |-> r.sid, arg |-> r.arg]
           /\ r.sid = currentSessionId
           /\ summaryResponseOf(r, TRUE) )
         => UNCHANGED <<hidden, currentSessionId, statusCheckInterval,
                        liveTimers, results>>]_vars

\* the summary of the current session is displayed and a request for the
\* same length class is in flight again
SameSummaryRequestedAgain ==
    /\ summaryContent.sid = currentSessionId
    /\ currentSessionId # NoSession
    /\ \E r \in Pending("summary") :
         r.sid = summaryContent.sid /\ r.arg = summaryContent.arg

\* ---- C18 -----------------------------------------------------------------
\* C18: on a page that stays visible, with status requests that eventually
\* succeed and report completed, every successful upload is eventually
\* followed by the Results phase, and once an upload has succeeded there is
\* a moment from which no timer is live any more.
UploadLeadsToResultsAndPollingEnds ==
    /\ (toast = "Files uploaded successfully!") ~> PhaseResults
    /\ (<>(toast = "Files uploaded successfully!"))
         => <>[](liveTimers = {})

\* ---- C19 -----------------------------------------------------------------
\* C19: in every reachable state in which the Results section is displayed
\* and the Processing section is not, no polling timer is live.
ResultsPhaseHasNoTimer ==
    (Visible("resultsSection") /\ ~Visible("processingSection"))
        => liveTimers = {}

\* ---- C20 -----------------------------------------------------------------
\* C20: a completed status response, of a poll or of loadSession's own
\* fetch, that belongs to a session other than the current one never brings
\* up the Results section.
StaleCompletedNeverShowsResults ==
    [][/\ \A r \in Pending("status") :
            (r.sid # currentSessionId /\ statusResponseOf(r, TRUE, "completed"))
            => (Visible("resultsSection")' => Visible("resultsSection"))
       /\ \A r \in Pending("loadStatus") :
            ( /\ r.sid # currentSessionId
              /\ loadSessionResponseOf(r, TRUE, "completed") )
            => (Visible("resultsSection")' => Visible("resultsSection"))]_vars

\* ---- C21 -----------------------------------------------------------------
\* C21: whenever a timer is live or the Processing or the Results section
\* is displayed a session is current; a current session is never replaced
\* by none; and no status, summary, quiz or save request is ever in flight
\* without a session id.
SessionNeverNull ==
    /\ []((liveTimers # {} \/ Visible("processingSection")
                           \/ Visible("resultsSection"))
            => currentSessionId # NoSession)
    /\ [][currentSessionId # NoSession
            => currentSessionId' # NoSession]_vars
    /\ [](\A r \in BagToSet(inflight) :
            r.kind \in {"status", "loadStatus", "summary", "quiz", "save"}
            => r.sid # NoSession)

\* a session is current, its timer is live and a status request for it is
\* in flight
PollingCurrentSession ==
    /\ PhaseProcessing
    /\ statusCheckInterval \in liveTimers
    /\ currentSessionId # NoSession
    /\ \E r \in Pending("status") : r.sid = currentSessionId

\* ---- C22 -----------------------------------------------------------------
\* C22: once the Upload section is hidden no step makes it visible again,
\* and no step leads from a state displaying Processing or Results to the
\* Upload phase.
UploadSectionNeverReturns ==
    /\ [][hidden["uploadSection"] => hidden'["uploadSection"]]_vars
    /\ [][(Visible("processingSection") \/ Visible("resultsSection"))
            => ~PhaseUpload']_vars

\* a session was loaded from the history and has reached Results, the
\* Upload section hidden
LoadedSessionInResults ==
    /\ PhaseResults
    /\ hidden["uploadSection"]
    /\ currentSessionId \in historyList
    /\ processingStatus = [sid |-> currentSessionId, st |-> "completed"]

====
